---- MODULE Spec2Model ----
(***************************************************************************)
(* A model of the scoreboard package: the Match record (match.py), the     *)
(* sort keys (match_sorter.py) and the Scoreboard registry (scoreboard.py).*)
(*                                                                         *)
(* Team names are sequences of one-character strings, so that str.lower()  *)
(* and the f-string that builds the dictionary key are computed and not    *)
(* assumed.  Every public method is one action, taken when no call is in   *)
(* progress; what it raised and what it returned are recorded in `call',   *)
(* `outcome', `returned', and the registry as it was before the call in    *)
(* `pre'.  Return is the caller taking the result, after which the next    *)
(* call can be made: the program is single-threaded and calls never        *)
(* overlap.  Assigning m.order_started is taken to set the attribute.      *)
(*                                                                         *)
(* Text is a sequence of one-character strings as well, so that padding,   *)
(* truncation and the line structure of summary() are computed.  Spec is   *)
(* the registry driven by every public method; SpecSummary is summary()    *)
(* on boards of up to MaxBoard matches, over every pagination window up to *)
(* MaxWindow.  sys.platform is an input of each summary call; max_lines    *)
(* and start_from are not negative.                                        *)
(***************************************************************************)
EXTENDS Integers, Sequences, FiniteSets, TLC

\* ---------------------------------------------------------------- bounds
\* How many matches are started successfully in one run (order_counter cap).
MaxStarts == 3

\* ------------------------------------------------------ program constants
MAX_TEAM_GOALS == 1000
MAX_SUMMARY_LINES == 20
COLUMN_PADDING == 2
MIN_COLUMN_WIDTH == 10
MAX_COLUMN_WIDTH == 50

\* ------------------------------------------------------------ team names
\* str.lower() on one character.
LowerChar(c) ==
    CASE c = "A" -> "a"
      [] c = "B" -> "b"
      [] OTHER -> c

\* str.lower() on a name.
lower(s) == [i \in 1..Len(s) |-> LowerChar(s[i])]

\* The names the callers pass: the empty name, two casings of one name,
\* and names that contain the separator of the dictionary key.
TeamNames ==
    { <<>>, <<"a">>, <<"A">>, <<"b">>, <<"a", "_">>, <<"_", "b">> }

\* Scoreboard._team_names_to_key
_team_names_to_key(home_team, away_team) ==
    lower(home_team) \o <<"_">> \o lower(away_team)

\* ---------------------------------------------------------------- Match
\* A value a caller passes as a score: an int, a float (val in tenths, so
\* 45 is 4.5) or a str that is no number ("foo").
IntScore(n) == [kind |-> "int", val |-> n]
FloatScore(t) == [kind |-> "float", val |-> t]
StrScore == [kind |-> "str", val |-> 0]

\* The scores the callers pass: two valid ones, the two nearest ints out of
\* range, 4.5 and "foo".
ScoreInputs ==
    { IntScore(0), IntScore(1), IntScore(-1), IntScore(MAX_TEAM_GOALS),
      FloatScore(45), StrScore }

\* ScoreAccepted with the upper limit included (le in place of lt).
ScoreAcceptedInclusive(v) ==
    CASE v.kind = "int" -> 0 <= v.val /\ v.val <= MAX_TEAM_GOALS
      [] v.kind = "float" ->
            v.val % 10 = 0 /\ 0 <= v.val \div 10 /\ v.val \div 10 <= MAX_TEAM_GOALS
      [] OTHER -> FALSE

\* conint(ge=0, lt=MAX_TEAM_GOALS): does the field accept the value.
ScoreAccepted(v) ==
    CASE v.kind = "int" -> 0 <= v.val /\ v.val < MAX_TEAM_GOALS
      [] v.kind = "float" ->
            v.val % 10 = 0 /\ 0 <= v.val \div 10 /\ v.val \div 10 < MAX_TEAM_GOALS
      [] OTHER -> FALSE

\* The int the field stores for an accepted value.
ScoreValue(v) == IF v.kind = "float" THEN v.val \div 10 ELSE v.val

\* Match.capitalize, the model validator: the names differ, ignoring case.
NamesDiffer(home, away) == lower(home) # lower(away)

\* NewMatch keeping the case-folded names instead of the names given.
NewMatchLowered(home, away, order) ==
    [home |-> lower(home), away |-> lower(away), home_score |-> 0, away_score |-> 0,
     order_started |-> order]

\* NewMatch with order_started left at 0 whatever the counter is.
NewMatchUnordered(home, away, order) ==
    [home |-> home, away |-> away, home_score |-> 0, away_score |-> 0,
     order_started |-> 0]

\* Match(home=..., away=...) with the default scores, then order_started set.
NewMatch(home, away, order) ==
    [home |-> home, away |-> away, home_score |-> 0, away_score |-> 0,
     order_started |-> order]

\* Match.total_score
total_score(m) == m.home_score + m.away_score

\* ----------------------------------------------------------- MatchSorter
\* ord() of the characters of the names.
Ord(c) ==
    CASE c = "A" -> 65
      [] c = "B" -> 66
      [] c = "_" -> 95
      [] c = "a" -> 97
      [] c = "b" -> 98

\* Python's s < t on str: the first differing character decides, a proper
\* prefix is smaller.
RECURSIVE StrLess(_, _)
StrLess(s, t) ==
    IF t = << >> THEN FALSE
    ELSE IF s = << >> THEN TRUE
    ELSE IF Head(s) # Head(t) THEN Ord(Head(s)) < Ord(Head(t))
    ELSE StrLess(Tail(s), Tail(t))

Sorters == {"GOALS_TOTAL", "ALPHANUMERIC_HOME_TEAM"}

\* GoalsTotalLess with order_started not negated: the older match first.
GoalsTotalLessOldestFirst(m, n) ==
    \/ -total_score(m) < -total_score(n)
    \/ total_score(m) = total_score(n) /\ m.order_started < n.order_started

\* MatchSorter.GOALS_TOTAL: key(m) < key(n) for the key (-total_score, -order_started).
GoalsTotalLess(m, n) ==
    \/ -total_score(m) < -total_score(n)
    \/ total_score(m) = total_score(n) /\ -m.order_started < -n.order_started

\* AlphanumericLess comparing the case-folded home names.
AlphanumericLessIgnoreCase(m, n) ==
    \/ StrLess(lower(m.home), lower(n.home))
    \/ m.home = n.home /\ -m.order_started < -n.order_started

\* MatchSorter.ALPHANUMERIC_HOME_TEAM: key(m) < key(n) for the key (home, -order_started).
AlphanumericLess(m, n) ==
    \/ StrLess(m.home, n.home)
    \/ m.home = n.home /\ -m.order_started < -n.order_started

KeyLess(sorter, m, n) ==
    IF sorter = "GOALS_TOTAL" THEN GoalsTotalLess(m, n) ELSE AlphanumericLess(m, n)

\* sorted(values, key=sorter): the smallest key first.  Matches with equal
\* keys would keep the dictionary's order; order_started is part of both
\* keys, so the choice below is of the one match with the smallest key.
RECURSIVE Sorted(_, _)
Sorted(S, sorter) ==
    IF S = {} THEN << >>
    ELSE LET m == CHOOSE x \in S : \A y \in S : ~KeyLess(sorter, y, x)
         IN  << m >> \o Sorted(S \ {m}, sorter)

\* ------------------------------------------------------------ Scoreboard
VARIABLES
    matches,        \* self.matches: key -> Match
    teams,          \* self.teams: lower-cased names in an active match
    order_counter,  \* self.order_counter
    call,           \* the call that has just run (op "idle": none): method and arguments
    outcome,        \* "ok" or the exception the last call raised
    returned,       \* the matches the last call returned, as a sequence
    returned_len,   \* the int the last call returned (len)
    returned_str,   \* the str the last call returned (summary), as characters
    pre             \* matches, teams, order_counter before the last call

vars ==
    <<matches, teams, order_counter, call, outcome, returned, returned_len,
      returned_str, pre>>

registry == [matches |-> matches, teams |-> teams, order_counter |-> order_counter]

\* max_lines=None, the default of summary.
NoneLines == -1

Call(op, a, b, os, hs, aws) ==
    [op |-> op, a |-> a, b |-> b, order_sensitive |-> os,
     home_score |-> hs, away_score |-> aws, sorter |-> "",
     pretty |-> FALSE, max_lines |-> NoneLines, start_from |-> 0, platform |-> ""]

NoScore == IntScore(0)

NoCall == Call("idle", <<>>, <<>>, FALSE, NoScore, NoScore)

\* No call is in progress: the caller can make one.
Idle == call.op = "idle"

\* Scoreboard.__init__
Init ==
    /\ matches = << >>
    /\ teams = {}
    /\ order_counter = 0
    /\ call = NoCall
    /\ outcome = "ok"
    /\ returned = << >>
    /\ returned_len = 0
    /\ returned_str = << >>
    /\ pre = [matches |-> << >>, teams |-> {}, order_counter |-> 0]

\* dict with one key removed / one key set.
DictDel(d, k) == [x \in (DOMAIN d) \ {k} |-> d[x]]
DictSet(d, k, v) == [x \in (DOMAIN d) \cup {k} |-> IF x = k THEN v ELSE d[x]]

\* Scoreboard.__len__
count(ms) == Cardinality(DOMAIN ms)

\* What start_match(home_team, away_team) does when the engaged set is ts:
\* the Match constructor validates first, then the engaged set is consulted.
StartOutcome(ts, home_team, away_team) ==
    IF ~NamesDiffer(home_team, away_team) THEN "ValidationError"
    ELSE IF lower(home_team) \in ts \/ lower(away_team) \in ts THEN "DuplicateError"
    ELSE "ok"

\* Scoreboard.start_match
start_match(home_team, away_team) ==
    /\ call' = Call("start", home_team, away_team, FALSE, NoScore, NoScore)
    /\ pre' = registry
    /\ returned' = << >>
    /\ returned_len' = 0
    /\ returned_str' = << >>
    /\ outcome' = StartOutcome(teams, home_team, away_team)
    /\ IF outcome' # "ok"
       THEN UNCHANGED <<matches, teams, order_counter>>
       ELSE /\ order_counter < MaxStarts
            /\ order_counter' = order_counter + 1
            /\ teams' = teams \cup {lower(home_team), lower(away_team)}
            /\ matches' = DictSet(matches, _team_names_to_key(home_team, away_team),
                                  NewMatch(home_team, away_team, order_counter))

\* Scoreboard.get_match as a function of the dictionary: the sequence of the
\* one match found, or the empty sequence when ValueError is raised.
Lookup(ms, team_a, team_b, order_sensitive) ==
    LET key == _team_names_to_key(team_a, team_b)
        rev == _team_names_to_key(team_b, team_a)
    IN  IF key \in DOMAIN ms THEN << ms[key] >>
        ELSE IF order_sensitive THEN << >>
        ELSE IF rev \in DOMAIN ms THEN << ms[rev] >>
        ELSE << >>

\* get_match taking the match it returns out of the dictionary.
get_match_popping(team_a, team_b, order_sensitive) ==
    /\ call' = Call("get", team_a, team_b, order_sensitive, NoScore, NoScore)
    /\ pre' = registry
    /\ returned' = Lookup(matches, team_a, team_b, order_sensitive)
    /\ returned_len' = 0
    /\ returned_str' = << >>
    /\ outcome' = IF returned' = << >> THEN "NotFound" ELSE "ok"
    /\ matches' = [k \in { j \in DOMAIN matches : << matches[j] >> # returned' } |->
                        matches[k]]
    /\ UNCHANGED <<teams, order_counter>>

\* Scoreboard.get_match
get_match(team_a, team_b, order_sensitive) ==
    /\ call' = Call("get", team_a, team_b, order_sensitive, NoScore, NoScore)
    /\ pre' = registry
    /\ returned' = Lookup(matches, team_a, team_b, order_sensitive)
    /\ returned_len' = 0
    /\ returned_str' = << >>
    /\ outcome' = IF returned' = << >> THEN "NotFound" ELSE "ok"
    /\ UNCHANGED <<matches, teams, order_counter>>

\* Update with the scores assigned to every match of the dictionary.
UpdateAll(ms, home_team, away_team, home_score, away_score) ==
    IF Lookup(ms, home_team, away_team, TRUE) = << >>
    THEN [matches |-> ms, outcome |-> "NotFound"]
    ELSE IF ~ScoreAccepted(home_score)
    THEN [matches |-> ms, outcome |-> "ValidationError"]
    ELSE IF ~ScoreAccepted(away_score)
    THEN [matches |-> [k \in DOMAIN ms |->
                        [ms[k] EXCEPT !.home_score = ScoreValue(home_score)]],
          outcome |-> "ValidationError"]
    ELSE [matches |-> [k \in DOMAIN ms |->
                        [ms[k] EXCEPT !.home_score = ScoreValue(home_score),
                                      !.away_score = ScoreValue(away_score)]],
          outcome |-> "ok"]

\* Scoreboard.update_match_score as a function of the dictionary: the
\* order-sensitive lookup, then the two validated assignments one after the
\* other.
Update(ms, home_team, away_team, home_score, away_score) ==
    LET key == _team_names_to_key(home_team, away_team)
    IN  IF Lookup(ms, home_team, away_team, TRUE) = << >>
        THEN [matches |-> ms, outcome |-> "NotFound"]
        ELSE IF ~ScoreAccepted(home_score)
        THEN [matches |-> ms, outcome |-> "ValidationError"]
        ELSE IF ~ScoreAccepted(away_score)
        THEN [matches |-> [ms EXCEPT ![key].home_score = ScoreValue(home_score)],
              outcome |-> "ValidationError"]
        ELSE [matches |-> [ms EXCEPT ![key].home_score = ScoreValue(home_score),
                                     ![key].away_score = ScoreValue(away_score)],
              outcome |-> "ok"]

\* Scoreboard.update_match_score
update_match_score(home_team, away_team, home_score, away_score) ==
    /\ call' = Call("update", home_team, away_team, TRUE, home_score, away_score)
    /\ pre' = registry
    /\ returned' = << >>
    /\ returned_len' = 0
    /\ returned_str' = << >>
    /\ outcome' = Update(matches, home_team, away_team, home_score, away_score).outcome
    /\ matches' = Update(matches, home_team, away_team, home_score, away_score).matches
    /\ UNCHANGED <<teams, order_counter>>

\* The body of finish_match once the key is found: del self.matches[key],
\* then self.teams.remove for each argument, which raises KeyError on a name
\* that is not in the set and leaves what was done before it done.
FinishFound(ms, ts, team_a, team_b) ==
    LET key == _team_names_to_key(team_a, team_b)
        la == lower(team_a)
        lb == lower(team_b)
    IN  IF la \notin ts
        THEN [matches |-> DictDel(ms, key), teams |-> ts, outcome |-> "KeyError"]
        ELSE IF lb \notin ts \ {la}
        THEN [matches |-> DictDel(ms, key), teams |-> ts \ {la}, outcome |-> "KeyError"]
        ELSE [matches |-> DictDel(ms, key), teams |-> ts \ {la, lb}, outcome |-> "ok"]

\* Scoreboard.finish_match as a function of the registry.
Finish(ms, ts, team_a, team_b, order_sensitive) ==
    IF _team_names_to_key(team_a, team_b) \in DOMAIN ms
    THEN FinishFound(ms, ts, team_a, team_b)
    ELSE IF order_sensitive
    THEN [matches |-> ms, teams |-> ts, outcome |-> "NotFound"]
    ELSE IF _team_names_to_key(team_b, team_a) \in DOMAIN ms
    THEN FinishFound(ms, ts, team_b, team_a)
    ELSE [matches |-> ms, teams |-> ts, outcome |-> "NotFound"]

\* Scoreboard.finish_match
finish_match(team_a, team_b, order_sensitive) ==
    LET r == Finish(matches, teams, team_a, team_b, order_sensitive)
    IN  /\ call' = Call("finish", team_a, team_b, order_sensitive, NoScore, NoScore)
        /\ pre' = registry
        /\ returned' = << >>
        /\ returned_len' = 0
        /\ returned_str' = << >>
        /\ matches' = r.matches
        /\ teams' = r.teams
        /\ outcome' = r.outcome
        /\ UNCHANGED order_counter

\* dict.values() as a set: the stored matches.
Values(ms) == { ms[k] : k \in DOMAIN ms }

\* Scoreboard.sort_matches
sort_matches(sorter) ==
    /\ call' = [NoCall EXCEPT !.op = "sort", !.sorter = sorter]
    /\ pre' = registry
    /\ returned' = Sorted(Values(matches), sorter)
    /\ returned_len' = 0
    /\ returned_str' = << >>
    /\ outcome' = "ok"
    /\ UNCHANGED <<matches, teams, order_counter>>

\* Scoreboard.__len__
len_scoreboard ==
    /\ call' = Call("len", <<>>, <<>>, FALSE, NoScore, NoScore)
    /\ pre' = registry
    /\ returned' = << >>
    /\ returned_len' = count(matches)
    /\ returned_str' = << >>
    /\ outcome' = "ok"
    /\ UNCHANGED <<matches, teams, order_counter>>

\* ------------------------------------------------------------- summary
\* Text is a sequence of one-character strings; "ESC" is the character \x1b.
HOME_HEADER == <<"H", "O", "M", "E">>
AWAY_HEADER == <<"A", "W", "A", "Y">>
TABLE_ELLIPSIS == <<"(", ".", ".", ".", ")", "\n">>
_home_color == <<"ESC", "[", "5", ";", "3", "0", ";", "4", "6", "m">>
_away_color == <<"ESC", "[", "6", ";", "3", "0", ";", "4", "2", "m">>
_color_end == <<"ESC", "[", "0", "m">>

Max2(x, y) == IF x >= y THEN x ELSE y
Min2(x, y) == IF x <= y THEN x ELSE y

\* c * n
Rep(c, n) == [i \in 1..n |-> c]

\* f"{s:<{width}}" and f"{s:>{width}}": padded with spaces, never cut.
PadRight(s, width) == s \o Rep(" ", Max2(0, width - Len(s)))
PadLeft(s, width) == Rep(" ", Max2(0, width - Len(s))) \o s

DigitChars == <<"0", "1", "2", "3", "4", "5", "6", "7", "8", "9">>

\* str(n) for n >= 0
RECURSIVE Decimal(_)
Decimal(n) ==
    IF n < 10 THEN << DigitChars[n + 1] >>
    ELSE Decimal(n \div 10) \o << DigitChars[(n % 10) + 1] >>

\* ZeroPadded without the zeros.
ZeroPaddedNot(n, width) == Decimal(n)

\* f"{n:0{width}d}" for n >= 0
ZeroPadded(n, width) == Rep("0", Max2(0, width - Len(Decimal(n)))) \o Decimal(n)

\* Slice with the end index included.
SliceInclusive(seq, from, to) ==
    IF from >= Min2(to + 1, Len(seq)) THEN << >>
    ELSE SubSeq(seq, from + 1, Min2(to + 1, Len(seq)))

\* seq[from:to] for 0 <= from, 0 <= to
Slice(seq, from, to) ==
    IF from >= Min2(to, Len(seq)) THEN << >> ELSE SubSeq(seq, from + 1, Min2(to, Len(seq)))

\* _get_matches_for_summary with the marker also when the window ends with the list.
_get_matches_for_summary_eager(ordered_matches, max_lines, start_from) ==
    IF Len(ordered_matches) + start_from <= max_lines
    THEN [matches_to_print |-> Slice(ordered_matches, start_from, Len(ordered_matches)),
          add_ellipsis |-> FALSE]
    ELSE [matches_to_print |-> Slice(ordered_matches, start_from, start_from + max_lines),
          add_ellipsis |-> start_from + max_lines <= Len(ordered_matches)]

\* _get_matches_for_summary with the window always ending at index max_lines.
_get_matches_for_summary_absolute(ordered_matches, max_lines, start_from) ==
    IF Len(ordered_matches) + start_from <= max_lines
    THEN [matches_to_print |-> Slice(ordered_matches, start_from, Len(ordered_matches)),
          add_ellipsis |-> FALSE]
    ELSE [matches_to_print |-> Slice(ordered_matches, start_from, max_lines),
          add_ellipsis |-> start_from + max_lines < Len(ordered_matches)]

\* Scoreboard._get_matches_for_summary, given the sorted list.
_get_matches_for_summary(ordered_matches, max_lines, start_from) ==
    IF Len(ordered_matches) + start_from <= max_lines
    THEN [matches_to_print |-> Slice(ordered_matches, start_from, Len(ordered_matches)),
          add_ellipsis |-> FALSE]
    ELSE [matches_to_print |-> Slice(ordered_matches, start_from, start_from + max_lines),
          add_ellipsis |-> start_from + max_lines < Len(ordered_matches)]

\* The name as _match_printer displays it in a column.
DisplayName(name, column_width) ==
    LET max_str_length == column_width - COLUMN_PADDING
    IN  IF Len(name) < max_str_length THEN name
        ELSE Slice(name, 0, max_str_length - 3) \o <<".", ".", ".">>

\* Scoreboard._match_printer
_match_printer(match, column_width, pretty) ==
    LET home_score_str ==
            IF match.home_score < 100 THEN <<" ">> \o ZeroPadded(match.home_score, 2)
            ELSE ZeroPadded(match.home_score, 3)
        away_score_str ==
            IF match.away_score < 100 THEN ZeroPadded(match.away_score, 2) \o <<" ">>
            ELSE ZeroPadded(match.away_score, 3)
        home_half == PadRight(DisplayName(match.home, column_width), column_width)
                        \o home_score_str
        away_half == away_score_str
                        \o PadLeft(DisplayName(match.away, column_width), column_width)
    IN  IF pretty
        THEN _home_color \o home_half \o _color_end \o <<":">>
                \o _away_color \o away_half \o _color_end \o <<"\n">>
        ELSE home_half \o <<":">> \o away_half \o <<"\n">>

\* max(len(name) ...) over a list, default 0
RECURSIVE MaxLen(_)
MaxLen(names) ==
    IF names = << >> THEN 0 ELSE Max2(Len(Head(names)), MaxLen(Tail(names)))

\* Scoreboard._get_column_width
_get_column_width(ms) ==
    LET max_home_name_length == MaxLen([i \in 1..Len(ms) |-> ms[i].home])
        max_away_name_length == MaxLen([i \in 1..Len(ms) |-> ms[i].away])
        max_name_length ==
            Max2(Max2(max_home_name_length, max_away_name_length), MIN_COLUMN_WIDTH)
    IN  Min2(max_name_length, MAX_COLUMN_WIDTH) + COLUMN_PADDING

\* Scoreboard._get_summary_footer
_get_summary_footer(column_width) == Rep("-", 2 * column_width + 7) \o <<"\n">>

\* Scoreboard._get_summary_header
_get_summary_header(column_width) ==
    _home_color \o PadRight(HOME_HEADER, column_width) \o <<" ", " ", " ">> \o _color_end
        \o <<"|">>
        \o _away_color \o <<" ", " ", " ">> \o PadLeft(AWAY_HEADER, column_width)
        \o _color_end \o <<"\n">>
        \o Rep("-", 2 * column_width + 7) \o <<"\n">>

\* The lines of the matches, one after the other.
RECURSIVE MatchLines(_, _, _)
MatchLines(ms, column_width, pretty) ==
    IF ms = << >> THEN << >>
    ELSE _match_printer(Head(ms), column_width, pretty)
            \o MatchLines(Tail(ms), column_width, pretty)

\* sys.platform values the process can run on.
Platforms == {"linux", "linux2", "win32"}

\* The max_lines and start_from the callers pass: None or a count, an index.
LineInputs(n) == {NoneLines} \cup 0..n
StartInputs(n) == 0..n

\* Scoreboard.summary as a function of the dictionary.
Summary(ms, pretty, max_lines, start_from, platform) ==
    LET lines == IF max_lines = NoneLines THEN MAX_SUMMARY_LINES ELSE max_lines
        page == _get_matches_for_summary(Sorted(Values(ms), "GOALS_TOTAL"), lines, start_from)
        col_width == _get_column_width(page.matches_to_print)
        is_linux == platform = "linux" \/ platform = "linux2"
        decorated == pretty /\ is_linux
    IN  (IF decorated THEN _get_summary_header(col_width) ELSE << >>)
            \o MatchLines(page.matches_to_print, col_width, decorated)
            \o (IF page.add_ellipsis THEN TABLE_ELLIPSIS ELSE << >>)
            \o (IF decorated THEN _get_summary_footer(col_width) ELSE << >>)

\* Scoreboard.summary
summary(pretty, max_lines, start_from, platform) ==
    /\ call' = [NoCall EXCEPT !.op = "summary", !.pretty = pretty, !.max_lines = max_lines,
                              !.start_from = start_from, !.platform = platform]
    /\ pre' = registry
    /\ returned' = << >>
    /\ returned_len' = 0
    /\ returned_str' = Summary(matches, pretty, max_lines, start_from, platform)
    /\ outcome' = "ok"
    /\ UNCHANGED <<matches, teams, order_counter>>

\* The scores tried in update_match_score(h, a, ..): every input for a pair
\* the lookup finds, one for a pair it does not find (the call raises before
\* it looks at the scores).
ScoresFor(h, a) ==
    IF Lookup(matches, h, a, TRUE) # << >> THEN ScoreInputs ELSE {IntScore(0)}

\* The caller takes what the call returned or raised.
Return ==
    /\ ~Idle
    /\ call' = NoCall
    /\ outcome' = "ok"
    /\ returned' = << >>
    /\ returned_len' = 0
    /\ returned_str' = << >>
    /\ pre' = registry
    /\ UNCHANGED <<matches, teams, order_counter>>

Next ==
    \/ Idle /\ \E h \in TeamNames, a \in TeamNames : start_match(h, a)
    \/ Idle /\ \E a \in TeamNames, b \in TeamNames, os \in BOOLEAN : get_match(a, b, os)
    \/ Idle /\ \E h \in TeamNames, a \in TeamNames :
            \E hs \in ScoresFor(h, a), aws \in ScoresFor(h, a) :
                update_match_score(h, a, hs, aws)
    \/ Idle /\ \E a \in TeamNames, b \in TeamNames, os \in BOOLEAN : finish_match(a, b, os)
    \/ Idle /\ \E sorter \in Sorters : sort_matches(sorter)
    \/ Idle /\ len_scoreboard
    \/ Idle /\ \E pretty \in BOOLEAN, platform \in {"linux", "win32"} :
            \E max_lines \in {NoneLines, 1}, start_from \in {0, 1} :
                summary(pretty, max_lines, start_from, platform)
    \/ Return

Spec == Init /\ [][Next]_vars

\* ------------------------------------------------- summary of a given board
\* How many matches the board holds, and how far max_lines and start_from go.
MaxBoard == 3
MaxWindow == 4

\* How many "A" a lengthened name gets: lengths 2, 9, 10, 11, 50 and 51 around
\* MIN_COLUMN_WIDTH and MAX_COLUMN_WIDTH.
NamePads == {0, 7, 8, 9, 48, 49}

\* The scores on the board: the least and the largest of two and of three digits.
BoardGoals == {0, 99, 100, 999}

\* The scores of the pairs after the first: total scores that tie or differ.
LaterGoals == {0, 100}

\* The i-th pair started (i >= 1): "h<i>" hosts "w<i>"; the home name of the
\* first pair and the away name of the second are lengthened by pad "A".
BoardHome(i, pad) == <<"h">> \o Decimal(i) \o (IF i = 1 THEN Rep("A", pad) ELSE << >>)
BoardAway(i, pad) == <<"w">> \o Decimal(i) \o (IF i = 2 THEN Rep("A", pad) ELSE << >>)

\* The dictionary after start_match for pairs 1..n and update_match_score
\* setting the home score of pair i to goals[i].
Board(n, goals, pad) ==
    [k \in { _team_names_to_key(BoardHome(i, pad), BoardAway(i, pad)) : i \in 1..n } |->
        LET i == CHOOSE j \in 1..n :
                    k = _team_names_to_key(BoardHome(j, pad), BoardAway(j, pad))
        IN  [NewMatch(BoardHome(i, pad), BoardAway(i, pad), i - 1)
                EXCEPT !.home_score = goals[i]]]

BoardTeams(n, pad) ==
    UNION { {lower(BoardHome(i, pad)), lower(BoardAway(i, pad))} : i \in 1..n }

InitSummary ==
    /\ \E n \in 0..MaxBoard : \E goals \in [1..n -> BoardGoals] :
            \E pad \in (IF n = 0 THEN {0} ELSE NamePads) :
                /\ \A i \in 2..n : goals[i] \in LaterGoals
                /\ matches = Board(n, goals, pad)
                /\ teams = BoardTeams(n, pad)
                /\ order_counter = n
                /\ pre = [matches |-> Board(n, goals, pad), teams |-> BoardTeams(n, pad),
                          order_counter |-> n]
    /\ call = NoCall
    /\ outcome = "ok"
    /\ returned = << >>
    /\ returned_len = 0
    /\ returned_str = << >>

NextSummary ==
    \/ Idle /\ \E pretty \in BOOLEAN, platform \in Platforms :
            \E max_lines \in LineInputs(MaxWindow), start_from \in StartInputs(MaxWindow) :
                summary(pretty, max_lines, start_from, platform)
    \/ Return

SpecSummary == InitSummary /\ [][NextSummary]_vars

\* ------------------------------------------------------------------ claims
\* The case-folded names of a match.
Participants(m) == {lower(m.home), lower(m.away)}

\* The name plays in some match of the dictionary.
Plays(ms, name) == \E k \in DOMAIN ms : lower(name) \in Participants(ms[k])

Started == call.op = "start" /\ outcome = "ok"
Finished == call.op = "finish" /\ outcome = "ok"

\* The match a successful start has just stored.
StartedMatch == NewMatch(call.a, call.b, pre.order_counter)

\* x, y are the names of the last call in some casing, given in that order.
Recased(x, y) == lower(x) = lower(call.a) /\ lower(y) = lower(call.b)

\* C1: no case-folded name belongs to more than one active match, and a
\* start naming a participant of an active match raises instead of storing.
C1_OneMatchPerParticipant ==
    /\ \A k1 \in DOMAIN matches, k2 \in DOMAIN matches :
            k1 # k2 => Participants(matches[k1]) \cap Participants(matches[k2]) = {}
    /\ (call.op = "start" /\ (Plays(pre.matches, call.a) \/ Plays(pre.matches, call.b)))
            => outcome # "ok"

\* C2: an update_score that finds its match and is given an invalid score
\* raises the validation error and leaves both scores as they were.
C2_InvalidUpdateKeepsBothScores ==
    (/\ call.op = "update"
     /\ Lookup(pre.matches, call.a, call.b, TRUE) # << >>
     /\ ~ScoreAccepted(call.home_score) \/ ~ScoreAccepted(call.away_score))
        => outcome = "ValidationError" /\ matches = pre.matches

\* C3: after a successful start(a, b), get(a, b) returns a match with home a
\* and away b in the casing given, and the score 0:0.
C3_StartThenGet ==
    Started =>
        LET r == Lookup(matches, call.a, call.b, FALSE)
        IN  /\ Len(r) = 1
            /\ r[1].home = call.a
            /\ r[1].away = call.b
            /\ r[1].home_score = 0
            /\ r[1].away_score = 0

\* C3 happens: a match whose home name has an upper-case letter is started
\* next to another active match.
C3_Witness ==
    Started /\ call.a = <<"A">> /\ count(matches) >= 2

\* C4: after a successful start(a, b), get in either argument order and in
\* any casing returns the match just stored, as home a, away b.
C4_GetAnyOrderAnyCasing ==
    Started =>
        \A x \in TeamNames, y \in TeamNames :
            Recased(x, y) =>
                /\ Lookup(matches, x, y, FALSE) = << StartedMatch >>
                /\ Lookup(matches, y, x, FALSE) = << StartedMatch >>

\* C5: a start or a finish that raises leaves the matches, the engaged set
\* and the counter as they were.
C5_FailedCallChangesNothing ==
    (call.op \in {"start", "finish"} /\ outcome # "ok") => registry = pre

\* C6: after a successful finish(a, b) there is one match fewer, and get(a, b)
\* and get(b, a) raise the not-found error.
C6_FinishThenNotFound ==
    Finished =>
        /\ count(matches) = count(pre.matches) - 1
        /\ Lookup(matches, call.a, call.b, FALSE) = << >>
        /\ Lookup(matches, call.b, call.a, FALSE) = << >>

\* C7: after a successful finish(a, b), start(a, c) and start(c, b) succeed
\* for every c that differs from the other name and plays in no active match.
C7_FinishFreesBoth ==
    Finished =>
        \A c \in TeamNames :
            ~Plays(matches, c) =>
                /\ NamesDiffer(call.a, c) => StartOutcome(teams, call.a, c) = "ok"
                /\ NamesDiffer(c, call.b) => StartOutcome(teams, c, call.b) = "ok"

\* C8: after a successful start(a, b), an order-insensitive finish given the
\* two names in either order and any casing removes that match and its two
\* case-folded names from the engaged set.
C8_FinishAnyOrderAnyCasing ==
    Started =>
        \A x \in TeamNames, y \in TeamNames :
            Recased(x, y) =>
                \A args \in {<<x, y>>, <<y, x>>} :
                    LET r == Finish(matches, teams, args[1], args[2], FALSE)
                    IN  /\ r.outcome = "ok"
                        /\ r.matches = DictDel(matches, _team_names_to_key(call.a, call.b))
                        /\ r.teams = teams \ {lower(call.a), lower(call.b)}

\* An int in the range the Match fields allow.
ValidScore(v) == v.kind = "int" /\ v.val \in 0..999

\* C9: the scores of every active match are ints in 0..999, and an invalid
\* value given for one score field raises and leaves that field as it was.
C9_ScoresStayValid ==
    /\ \A k \in DOMAIN matches :
            matches[k].home_score \in 0..999 /\ matches[k].away_score \in 0..999
    /\ (call.op = "update" /\ Lookup(pre.matches, call.a, call.b, TRUE) # << >>) =>
            LET key == _team_names_to_key(call.a, call.b)
            IN  /\ ~ValidScore(call.home_score) =>
                    /\ outcome = "ValidationError"
                    /\ matches[key].home_score = pre.matches[key].home_score
                /\ ~ValidScore(call.away_score) =>
                    /\ outcome = "ValidationError"
                    /\ matches[key].away_score = pre.matches[key].away_score

\* C9 happens: the away score is rejected after the home score was assigned,
\* on a match whose away score was not 0.
C9_Witness ==
    /\ call.op = "update"
    /\ outcome = "ValidationError"
    /\ ValidScore(call.home_score)
    /\ ~ValidScore(call.away_score)
    /\ Lookup(pre.matches, call.a, call.b, TRUE) # << >>
    /\ Lookup(pre.matches, call.a, call.b, TRUE)[1].away_score = 1

\* C10: sort by total score returns every active match once, larger totals
\* first and, among equal totals, the larger order_started first.
C10_SortByTotal ==
    (call.op = "sort" /\ call.sorter = "GOALS_TOTAL") =>
        /\ Len(returned) = count(matches)
        /\ { returned[i] : i \in 1..Len(returned) } = Values(matches)
        /\ \A i \in 1..Len(returned), j \in 1..Len(returned) :
                i < j =>
                    LET ti == returned[i].home_score + returned[i].away_score
                        tj == returned[j].home_score + returned[j].away_score
                    IN  \/ ti > tj
                        \/ ti = tj /\ returned[i].order_started > returned[j].order_started

\* C10 happens: two matches with the same total, not 0, are sorted, so that
\* order_started alone decides.
C10_Witness ==
    /\ call.op = "sort"
    /\ call.sorter = "GOALS_TOTAL"
    /\ Len(returned) = 2
    /\ total_score(returned[1]) = total_score(returned[2])
    /\ total_score(returned[1]) > 0

\* x comes strictly before y in case-sensitive lexicographic order: at the
\* first position where they differ x ends or has the smaller code point.
LexLess(x, y) ==
    \E i \in 1..(Len(y)) :
        /\ i <= Len(x) + 1
        /\ \A j \in 1..(i - 1) : x[j] = y[j]
        /\ i = Len(x) + 1 \/ Ord(x[i]) < Ord(y[i])

\* C11: sort by home name returns every active match once, the stored home
\* names ascending in case-sensitive lexicographic order.
C11_SortByHomeName ==
    (call.op = "sort" /\ call.sorter = "ALPHANUMERIC_HOME_TEAM") =>
        /\ Len(returned) = count(matches)
        /\ { returned[i] : i \in 1..Len(returned) } = Values(matches)
        /\ \A i \in 1..Len(returned), j \in 1..Len(returned) :
                i < j =>
                    \/ LexLess(returned[i].home, returned[j].home)
                    \/ returned[i].home = returned[j].home

\* C11 happens: the match sorted first was started first and has the
\* smaller total, so the total-score criterion would put it last; the names
\* differ in the case of their first letters.
C11_Witness ==
    /\ call.op = "sort"
    /\ call.sorter = "ALPHANUMERIC_HOME_TEAM"
    /\ Len(returned) = 2
    /\ returned[1].home = <<"A">>
    /\ returned[2].home = <<"_", "b">>
    /\ total_score(returned[1]) < total_score(returned[2])
    /\ returned[1].order_started < returned[2].order_started

\* The lines of a text, without their line breaks (str.splitlines).
RECURSIVE SplitLines(_)
SplitLines(text) ==
    IF text = << >> THEN << >>
    ELSE LET brk == CHOOSE i \in 1..Len(text) :
                        /\ text[i] = "\n" \/ i = Len(text)
                        /\ \A j \in 1..(i - 1) : text[j] # "\n"
             line == IF text[brk] = "\n" THEN SubSeq(text, 1, brk - 1) ELSE text
         IN  <<line>> \o SplitLines(SubSeq(text, brk + 1, Len(text)))

MarkerLine == <<"(", ".", ".", ".", ")">>

\* A line that shows a match: the only lines with the score separator.
IsMatchLine(line) == \E i \in 1..Len(line) : line[i] = ":"

Summarised == call.op = "summary"

\* The summary just made was decorated: pretty on a platform with colours.
Decorated == call.pretty /\ call.platform \in {"linux", "linux2"}

\* The max_lines in effect for the summary just made.
EffectiveLines == IF call.max_lines = NoneLines THEN 20 ELSE call.max_lines

\* The marker is in the summary exactly when matches remain after the window.
MarkerIffMore ==
    (\E i \in 1..Len(SplitLines(returned_str)) : SplitLines(returned_str)[i] = MarkerLine)
        <=> call.start_from + EffectiveLines < count(matches)

\* C12 as stated: the marker appears iff start_from + max_lines < n, and
\* with n > max_lines and start_from = 0 the summary is max_lines match
\* lines and then the marker as its last line.
C12_MarkerLastLine ==
    Summarised =>
        LET lines == SplitLines(returned_str)
        IN  /\ MarkerIffMore
            /\ (count(matches) > EffectiveLines /\ call.start_from = 0) =>
                    /\ Len(SelectSeq(lines, IsMatchLine)) = EffectiveLines
                    /\ Len(lines) > 0
                    /\ lines[Len(lines)] = MarkerLine

\* C12 amended: the marker appears iff start_from + max_lines < n, and with
\* n > max_lines and start_from = 0 the max_lines match lines are followed
\* at once by the marker, which is the last line of a plain summary and the
\* last but one, before the footer, of a decorated one.
C12_MarkerAfterMatches ==
    Summarised =>
        LET lines == SplitLines(returned_str)
            above == IF Decorated THEN 2 ELSE 0
            below == IF Decorated THEN 1 ELSE 0
        IN  /\ MarkerIffMore
            /\ (count(matches) > EffectiveLines /\ call.start_from = 0) =>
                    /\ Len(lines) = above + EffectiveLines + 1 + below
                    /\ \A i \in 1..Len(lines) :
                            IsMatchLine(lines[i]) <=>
                                (above < i /\ i <= above + EffectiveLines)
                    /\ lines[above + EffectiveLines + 1] = MarkerLine

\* C12 happens: a decorated summary of three matches, two lines allowed.
C12_Witness ==
    /\ Summarised
    /\ Decorated
    /\ count(matches) = 3
    /\ call.max_lines = 2
    /\ call.start_from = 0
    /\ Len(SplitLines(returned_str)) = 6

\* C13: the match lines of a summary are the lines of entries start_from up
\* to min(n, start_from + max_lines) - 1 of the sort by total score, in
\* that order and nothing else.
C13_WindowOfDefaultSort ==
    Summarised =>
        LET ordered == Sorted(Values(matches), "GOALS_TOTAL")
            first == call.start_from
            last == Min2(count(matches), call.start_from + EffectiveLines) - 1
            window == [i \in 1..Max2(0, last - first + 1) |-> ordered[first + i]]
            shown == SelectSeq(SplitLines(returned_str), IsMatchLine)
        IN  /\ Len(shown) = Len(window)
            /\ \A i \in 1..Len(window) :
                    shown[i] \o <<"\n">> =
                        _match_printer(window[i], _get_column_width(window), Decorated)

\* C13 happens: of three matches the one shown is the second by total
\* score, which is the one started first.
C13_Witness ==
    /\ Summarised
    /\ count(matches) = 3
    /\ call.start_from = 1
    /\ call.max_lines = 1
    /\ Len(SelectSeq(SplitLines(returned_str), IsMatchLine)) = 1
    /\ Sorted(Values(matches), "GOALS_TOTAL")[2].order_started = 0

\* C14: a summary of no active match is the empty string, in plain and in
\* decorated mode.
C14_EmptySummaryIsEmpty ==
    (Summarised /\ count(matches) = 0) => returned_str = << >>

\* C15: a start with an empty name, or with two names equal but for case,
\* raises the validation error and stores nothing.
C15_BadNamesRejected ==
    (call.op = "start" /\
     (call.a = << >> \/ call.b = << >> \/ lower(call.a) = lower(call.b))) =>
        /\ outcome = "ValidationError"
        /\ registry = pre

Updated == call.op = "update" /\ outcome = "ok"

\* C16: a successful update changes the two scores of one match and nothing
\* else: the other matches, the names and order_started of the updated one,
\* the set of keys, the engaged set and the counter are as before.
C16_UpdateChangesOnlyScores ==
    Updated =>
        /\ DOMAIN matches = DOMAIN pre.matches
        /\ teams = pre.teams
        /\ order_counter = pre.order_counter
        /\ \E k \in DOMAIN matches :
                /\ matches[k].home_score = call.home_score.val
                /\ matches[k].away_score = call.away_score.val
                /\ matches[k].home = pre.matches[k].home
                /\ matches[k].away = pre.matches[k].away
                /\ matches[k].order_started = pre.matches[k].order_started
                /\ \A j \in DOMAIN matches \ {k} : matches[j] = pre.matches[j]

\* C16 happens: one of two matches is updated, the other one has a score
\* that differs from the one given.
C16_Witness ==
    /\ Updated
    /\ count(matches) = 2
    /\ \E j \in DOMAIN matches :
            /\ matches[j].home_score # call.home_score.val
            /\ matches[j].away_score # call.away_score.val
            /\ matches[j].home_score + matches[j].away_score > 0
    /\ matches # pre.matches

\* C17: after start(a, b), an update naming (b, a) raises not-found and
\* changes no score, and an update naming (a, b) in any casing with valid
\* scores x, y leaves the match a/b with the score x:y.
C17_UpdateOrderSensitive ==
    Started =>
        \A x \in ScoreInputs, y \in ScoreInputs :
            /\ Update(matches, call.b, call.a, x, y).outcome = "NotFound"
            /\ Update(matches, call.b, call.a, x, y).matches = matches
            /\ (ValidScore(x) /\ ValidScore(y)) =>
                    \A h \in TeamNames, a \in TeamNames :
                        Recased(h, a) =>
                            LET after == Update(matches, h, a, x, y)
                            IN  /\ after.outcome = "ok"
                                /\ \E k \in DOMAIN after.matches :
                                        after.matches[k] =
                                            [StartedMatch EXCEPT !.home_score = x.val,
                                                                 !.away_score = y.val]

\* C18: a successful start adds one to the count and keeps every match that
\* was active, retrievable by its own pair; a successful finish takes one
\* from the count and no other call changes it.
C18_CountFollowsStartsAndFinishes ==
    /\ Started =>
            /\ count(matches) = count(pre.matches) + 1
            /\ \A k \in DOMAIN pre.matches :
                    Lookup(matches, pre.matches[k].home, pre.matches[k].away, TRUE)
                        = << pre.matches[k] >>
    /\ Finished => count(matches) = count(pre.matches) - 1
    /\ (~Started /\ ~Finished) => count(matches) = count(pre.matches)

\* C19: both case-folded names of every active match are engaged, and a
\* successful finish removes from the engaged set the two names of the match
\* it removed and no other name.
C19_EngagedFollowsMatches ==
    /\ \A k \in DOMAIN matches : Participants(matches[k]) \subseteq teams
    /\ Finished =>
            \E k \in DOMAIN pre.matches :
                /\ DOMAIN matches = DOMAIN pre.matches \ {k}
                /\ teams = pre.teams \ Participants(pre.matches[k])
                /\ Cardinality(pre.teams \ teams) = 2

\* The sort keys of MatchSorter, compared for equality.
SameGoalsKey(m, n) ==
    m.home_score + m.away_score = n.home_score + n.away_score
        /\ m.order_started = n.order_started
SameHomeKey(m, n) == m.home = n.home /\ m.order_started = n.order_started

\* C20: a successful start gives the new match the counter's value and adds
\* one to the counter, every other call leaves the counter as it was; the
\* active matches have distinct order_started, all below the counter, and
\* so distinct sort keys under both criteria.
C20_CounterNeverReused ==
    /\ Started =>
            /\ order_counter = pre.order_counter + 1
            /\ matches[_team_names_to_key(call.a, call.b)].order_started
                    = pre.order_counter
    /\ ~Started => order_counter = pre.order_counter
    /\ \A k \in DOMAIN matches : matches[k].order_started \in 0..(order_counter - 1)
    /\ \A k \in DOMAIN matches, j \in DOMAIN matches :
            k # j =>
                /\ matches[k].order_started # matches[j].order_started
                /\ ~SameGoalsKey(matches[k], matches[j])
                /\ ~SameHomeKey(matches[k], matches[j])

\* C20 happens: a match is started on a board that has been emptied again,
\* and does not get the order_started of the first match.
C20_Witness ==
    /\ Started
    /\ count(pre.matches) = 0
    /\ pre.teams = {}
    /\ pre.order_counter = 2
    /\ count(matches) = 1

\* The matches a summary shows: entries start_from up to
\* min(n, start_from + max_lines) - 1 of the sort by total score.
Window ==
    LET ordered == Sorted(Values(matches), "GOALS_TOTAL")
        last == Min2(count(matches), call.start_from + EffectiveLines)
    IN  [i \in 1..Max2(0, last - call.start_from) |-> ordered[call.start_from + i]]

\* The match lines of the summary just made, colour codes taken off.
ShownPlain ==
    LET shown == SelectSeq(SplitLines(returned_str), IsMatchLine)
    IN  [i \in 1..Len(shown) |->
            IF Decorated
            THEN SelectSeq(SubSeq(shown[i], 11, Len(shown[i]) - 4),
                           LAMBDA c : c \notin {"ESC", "[", "m", ";"})
            ELSE shown[i]]

\* The width of a column of the page: the longest name on it, not below 10
\* and not over 50, and the padding of 2.
PageColumnWidth ==
    LET longest == MaxLen([i \in 1..Len(Window) |-> Window[i].home]
                            \o [i \in 1..Len(Window) |-> Window[i].away])
    IN  Min2(Max2(longest, 10), 50) + 2

\* A name as the claim shows it in a column of W characters.
FullOrCut(name, W) ==
    IF Len(name) <= W THEN name
    ELSE SubSeq(name, 1, W - 3) \o <<".", ".", ".">>

\* C21: in every match line a name of at most W = column_width - 2
\* characters is shown in full, and a longer one as its first W - 3
\* characters and "...".
C21_NameShownOrCut ==
    Summarised =>
        LET W == PageColumnWidth - 2
        IN  \A i \in 1..Len(Window) :
                /\ i <= Len(ShownPlain)
                /\ SubSeq(ShownPlain[i], 1, PageColumnWidth)
                        = PadRight(FullOrCut(Window[i].home, W), PageColumnWidth)
                /\ SubSeq(ShownPlain[i], Len(ShownPlain[i]) - PageColumnWidth + 1,
                          Len(ShownPlain[i]))
                        = PadLeft(FullOrCut(Window[i].away, W), PageColumnWidth)

ScoreChars == {" ", "0", "1", "2", "3", "4", "5", "6", "7", "8", "9"}

\* C22: every match line of a plain summary has 2 * column_width + 7
\* characters: a column, three characters of score, ":", three characters of
\* score, a column, and the name in a column leaves the padding free.
C22_LineWidth ==
    (Summarised /\ ~Decorated) =>
        LET cw == PageColumnWidth
            shown == SelectSeq(SplitLines(returned_str), IsMatchLine)
        IN  \A i \in 1..Len(shown) :
                /\ Len(shown[i]) = 2 * cw + 7
                /\ shown[i][cw + 4] = ":"
                /\ \A j \in {cw + 1, cw + 2, cw + 3, cw + 5, cw + 6, cw + 7} :
                        shown[i][j] \in ScoreChars
                /\ \A j \in {cw - 1, cw, cw + 8, cw + 9} : shown[i][j] = " "

\* C22 happens: a plain line with a name of 51 characters and the score 999.
C22_Witness ==
    /\ Summarised
    /\ ~Decorated
    /\ Len(Window) = 1
    /\ Len(Window[1].home) = 51
    /\ Window[1].home_score = 999
    /\ Len(returned_str) = 2 * 52 + 7 + 1

\* C23: after start(a, b), get(b, a) with order_sensitive true raises
\* not-found and get(a, b) with order_sensitive true returns the match in
\* any casing; with order_sensitive false the result is that of the pair as
\* given or else that of the swapped pair, each tried once.
C23_GetOrderSensitive ==
    Started =>
        /\ Lookup(matches, call.b, call.a, TRUE) = << >>
        /\ \A x \in TeamNames, y \in TeamNames :
                /\ Recased(x, y) => Lookup(matches, x, y, TRUE) = << StartedMatch >>
                /\ Lookup(matches, x, y, FALSE) =
                        IF Lookup(matches, x, y, TRUE) # << >>
                        THEN Lookup(matches, x, y, TRUE)
                        ELSE Lookup(matches, y, x, TRUE)

\* C24: len, get, sort and summary leave the matches, the engaged set and
\* the counter as they were before the call.
C24_ReadsChangeNothing ==
    call.op \in {"len", "get", "sort", "summary"} => registry = pre

\* C24 happens: the second page of a decorated summary of two matches is
\* made, one of them with a score.
C24_Witness ==
    /\ Summarised
    /\ Decorated
    /\ count(matches) = 2
    /\ call.max_lines = 1
    /\ call.start_from = 1
    /\ \E k \in DOMAIN matches : total_score(matches[k]) > 0
    /\ Len(returned_str) > 0

\* C25: every engaged name is a case-folded name of exactly one active
\* match, so there are twice as many engaged names as active matches and
\* none when no match is active.
C25_NoStaleNames ==
    /\ \A name \in teams :
            Cardinality({ k \in DOMAIN matches : name \in Participants(matches[k]) }) = 1
    /\ Cardinality(teams) = 2 * count(matches)
    /\ count(matches) = 0 => teams = {}

\* The page of k lines that starts at index from: its matches and whether
\* the marker is asked for.
Page(k, from) ==
    _get_matches_for_summary(Sorted(Values(matches), "GOALS_TOTAL"), k, from)

\* The matches of pages 0 .. j - 1 of k lines, one after the other.
RECURSIVE PagesUpTo(_, _)
PagesUpTo(k, j) ==
    IF j = 0 THEN << >>
    ELSE PagesUpTo(k, j - 1) \o Page(k, (j - 1) * k).matches_to_print

\* The text has the marker as one of its lines.
HasMarker(text) ==
    \E i \in 1..Len(SplitLines(text)) : SplitLines(text)[i] = MarkerLine

\* How many pages of k lines are not empty.
PageCount(k) == (count(matches) + k - 1) \div k

\* C26: for max_lines = k >= 1 the pages that start at 0, k, 2k, ... up to
\* the last one that is not empty hold together the matches in the order of
\* the sort by total score, each match once, and every page but the last
\* has the marker; the summary made with start_from = j * k shows page j,
\* with the marker unless it is the last.
C26_PagesPartition ==
    (Summarised /\ call.max_lines >= 1) =>
        LET k == call.max_lines
        IN  /\ PagesUpTo(k, PageCount(k)) = Sorted(Values(matches), "GOALS_TOTAL")
            /\ Len(PagesUpTo(k, PageCount(k))) = count(matches)
            /\ \A j \in 0..(PageCount(k) - 1) :
                    /\ Page(k, j * k).matches_to_print # << >>
                    /\ Page(k, j * k).add_ellipsis <=> j < PageCount(k) - 1
                    /\ call.start_from = j * k =>
                            /\ Window = Page(k, j * k).matches_to_print
                            /\ Len(SelectSeq(SplitLines(returned_str), IsMatchLine))
                                    = Len(Window)
                            /\ HasMarker(returned_str) <=> j < PageCount(k) - 1

\* C26 happens: the second and last page of two lines of a board of three
\* matches is made, and has no marker.
C26_Witness ==
    /\ Summarised
    /\ count(matches) = 3
    /\ call.max_lines = 2
    /\ call.start_from = 2
    /\ Len(SelectSeq(SplitLines(returned_str), IsMatchLine)) = 1
    /\ ~HasMarker(returned_str)
====
